---- MODULE Spec2Model ----
(***************************************************************************)
(* Buffer pool of cmu15445 (BusTub): LRUReplacer, LRUKReplacer,            *)
(* BufferPoolManager and the page guards, as one state machine.            *)
(*                                                                         *)
(* Every public manager operation runs under latch_ from entry to return,  *)
(* so called by one thread each one is one atomic action (Spec,            *)
(* SpecGuards); SpecThreads takes the guarded fetches and releases apart   *)
(* into their waits for latch_ and for the frame latch.  SpecLRUK and      *)
(* SpecLRU call the two replacers directly.  Page contents (data_) and the *)
(* value of current_timestamp_ are never read by the code modelled here    *)
(* and are left out; a node's history_ is kept as its length.              *)
(***************************************************************************)
EXTENDS Integers, Sequences, FiniteSets, TLC

\* ---------------------------------------------------------------- bounds
MaxPool   == 2    \* pool_size ranges over 1..MaxPool
MaxK      == 2    \* replacer_k ranges over 1..MaxK
MaxPageId == 2    \* page ids 0..MaxPageId-1 are allocated and fetched
MaxPin    == 2    \* a hit of FetchPage is taken only while pin_count < MaxPin
MaxGuards == 2    \* guard objects the client holds at one time
GuardPool == 1    \* pool_size ranges over 1..GuardPool when guards are used
MaxGuardPin == 3  \* a guard is fetched only while pin_count < MaxGuardPin
MaxLRUPages == 2  \* num_pages of a stand-alone LRUReplacer ranges over 1..MaxLRUPages
MaxLRUFrames == 3 \* frame ids 0..MaxLRUFrames-1 are given to the LRUReplacer
MaxClock  == 5    \* uses (insertions and accesses) of the LRUReplacer that are followed

\* ------------------------------------------------------------- constants
INVALID_PAGE_ID == 0 - 1
nullptr == 0 - 1             \* the null Page* / no frame

PageIds == 0 .. (MaxPageId - 1)
GuardIds == 1 .. MaxGuards
LRUFrames == 0 .. (MaxLRUFrames - 1)
\* Each client thread owns one guard object; thread 0 is nobody.
Threads == GuardIds

\* --------------------------------------------------------------- helpers
IndexOf(s, x) == CHOOSE i \in 1 .. Len(s) : s[i] = x /\ \A j \in 1 .. (i - 1) : s[j] # x
EraseAt(s, i) == SubSeq(s, 1, i - 1) \o SubSeq(s, i + 1, Len(s))
InSeq(s, x) == \E i \in 1 .. Len(s) : s[i] = x
SeqSet(s) == {s[i] : i \in 1 .. Len(s)}
MapErase(m, x) == [y \in (DOMAIN m) \ {x} |-> m[y]]
MapPut(m, x, v) == [y \in (DOMAIN m) \cup {x} |-> IF y = x THEN v ELSE m[y]]
EmptyMap == [y \in {} |-> 0]
\* Then(e, F) is F(e), with e evaluated once.
Then(e, F(_)) == CHOOSE y \in {F(x) : x \in {e}} : TRUE

\* ----------------------------------------------------------- LRUReplacer
\* An LRUReplacer is [list_, cur_size_, num_pages_].
LRUReplacer(num_pages) == [list_ |-> <<>>, cur_size_ |-> 0, num_pages_ |-> num_pages]

Victim(q) ==
  IF Len(q.list_) = 0
    THEN [ok |-> FALSE, frame_id |-> nullptr, q |-> q]
    ELSE [ok |-> TRUE, frame_id |-> Head(q.list_),
          q |-> [q EXCEPT !.list_ = Tail(@), !.cur_size_ = @ - 1]]

Pin(q, frame_id) ==
  IF Len(q.list_) = 0 THEN q
  ELSE IF InSeq(q.list_, frame_id)
    THEN [q EXCEPT !.list_ = EraseAt(@, IndexOf(@, frame_id)), !.cur_size_ = @ - 1]
    ELSE q

Unpin(q, frame_id) ==
  IF InSeq(q.list_, frame_id) THEN q
  ELSE [q EXCEPT !.list_ = (IF Len(@) >= q.num_pages_ THEN Tail(@) ELSE @) \o <<frame_id>>,
                 !.cur_size_ = @ + 1]

\* Access leaving the frame where it is.
Access_mut(q, frame_id) == q

Access(q, frame_id) ==
  IF InSeq(q.list_, frame_id)
    THEN [q EXCEPT !.list_ = EraseAt(@, IndexOf(@, frame_id)) \o <<frame_id>>]
    ELSE q

LRUSize(q) == q.cur_size_

\* -------------------------------------------------------------- LRUKNode
\* history_ is the number of recorded timestamps (at most k).
LRUKNode == [history_ |-> 0, is_evictable_ |-> FALSE]
add_history(n, k) == [n EXCEPT !.history_ = IF @ + 1 > k THEN k ELSE @ + 1]
is_old_cache(n, k) == n.history_ >= k

\* ---------------------------------------------------------- LRUKReplacer
\* An LRUKReplacer is [map_, new_cache_list_, old_cache_list_, curr_size_,
\* num_frames_, k_].  Operations that can throw or run into undefined
\* behaviour return the outcome in err: "none", "throw" or "ub".
LRUKReplacer(num_frames, k) ==
  [map_ |-> EmptyMap, new_cache_list_ |-> LRUReplacer(num_frames),
   old_cache_list_ |-> LRUReplacer(num_frames), curr_size_ |-> 0,
   num_frames_ |-> num_frames, k_ |-> k]

Size(r) == r.curr_size_

Evict(r) ==
  IF LRUSize(r.old_cache_list_) + LRUSize(r.new_cache_list_) = 0
    THEN [ok |-> FALSE, frame_id |-> nullptr, r |-> r]
  ELSE
    LET vn == Victim(r.new_cache_list_)
        vo == Victim(r.old_cache_list_)
    IN IF LRUSize(r.new_cache_list_) # 0 /\ vn.ok
         THEN [ok |-> TRUE, frame_id |-> vn.frame_id,
               r |-> [r EXCEPT !.new_cache_list_ = vn.q, !.curr_size_ = @ - 1,
                               !.map_ = MapErase(@, vn.frame_id)]]
       ELSE IF LRUSize(r.old_cache_list_) # 0 /\ vo.ok
         THEN [ok |-> TRUE, frame_id |-> vo.frame_id,
               r |-> [r EXCEPT !.old_cache_list_ = vo.q, !.curr_size_ = @ - 1,
                               !.map_ = MapErase(@, vo.frame_id)]]
       ELSE [ok |-> FALSE, frame_id |-> nullptr, r |-> r]

RecordAccess(r, frame_id) ==
  IF frame_id \notin DOMAIN r.map_
    THEN [r EXCEPT !.map_ = MapPut(@, frame_id, add_history(LRUKNode, r.k_))]
  ELSE
    LET n  == r.map_[frame_id]
        n2 == add_history(n, r.k_)
        r2 == [r EXCEPT !.map_[frame_id] = n2]
    IN IF n.is_evictable_
         THEN IF is_old_cache(n, r.k_)
                THEN [r2 EXCEPT !.old_cache_list_ = Access(@, frame_id)]
              ELSE IF is_old_cache(n2, r.k_)
                THEN [r2 EXCEPT !.new_cache_list_ = Pin(@, frame_id),
                                !.old_cache_list_ = Unpin(@, frame_id)]
              ELSE [r2 EXCEPT !.new_cache_list_ = Access(@, frame_id)]
         ELSE r2

\* Lines 91-109 and 120-138: make room when curr_size_ >= num_frames_.
MakeRoom(r) ==
  IF r.curr_size_ >= r.num_frames_
    THEN LET fromNew == LRUSize(r.new_cache_list_) > 0
             v  == IF fromNew THEN Victim(r.new_cache_list_) ELSE Victim(r.old_cache_list_)
             r2 == IF fromNew THEN [r EXCEPT !.new_cache_list_ = v.q]
                              ELSE [r EXCEPT !.old_cache_list_ = v.q]
         IN IF ~v.ok THEN [r |-> r, err |-> "throw"]
            ELSE IF v.frame_id \notin DOMAIN r2.map_ THEN [r |-> r2, err |-> "throw"]
            ELSE [r |-> [r2 EXCEPT !.map_ = MapErase(@, v.frame_id)], err |-> "none"]
    ELSE [r |-> [r EXCEPT !.curr_size_ = @ + 1], err |-> "none"]

SetEvictable(r, frame_id, set_evictable) ==
  IF frame_id \notin DOMAIN r.map_
    THEN IF set_evictable
           THEN LET m == MakeRoom(r)
                IN IF m.err # "none" THEN m
                   ELSE [r |-> [m.r EXCEPT !.map_ = MapPut(@, frame_id, LRUKNode),
                                           !.new_cache_list_ = Unpin(@, frame_id)],
                         err |-> "none"]
           ELSE [r |-> r, err |-> "none"]
  ELSE IF set_evictable
    THEN IF ~r.map_[frame_id].is_evictable_
           THEN LET m == MakeRoom([r EXCEPT !.map_[frame_id].is_evictable_ = TRUE])
                IN IF m.err # "none" THEN m
                   \* map_[frame_id] of an erased node is a null LRUKNode*
                   ELSE IF frame_id \notin DOMAIN m.r.map_ THEN [r |-> m.r, err |-> "ub"]
                   ELSE IF is_old_cache(m.r.map_[frame_id], r.k_)
                     THEN [r |-> [m.r EXCEPT !.old_cache_list_ = Unpin(@, frame_id)], err |-> "none"]
                     ELSE [r |-> [m.r EXCEPT !.new_cache_list_ = Unpin(@, frame_id)], err |-> "none"]
           ELSE [r |-> r, err |-> "none"]
  ELSE
    LET n  == r.map_[frame_id]
        r2 == IF is_old_cache(n, r.k_)
                THEN [r EXCEPT !.old_cache_list_ = Pin(@, frame_id)]
                ELSE [r EXCEPT !.new_cache_list_ = Pin(@, frame_id)]
        r3 == IF n.is_evictable_ THEN [r2 EXCEPT !.curr_size_ = @ - 1] ELSE r2
    IN [r |-> [r3 EXCEPT !.map_ = MapErase(@, frame_id)], err |-> "none"]

Remove(r, frame_id) ==
  IF frame_id \notin DOMAIN r.map_ THEN r
  ELSE IF ~r.map_[frame_id].is_evictable_ THEN r
  ELSE LET r2 == IF is_old_cache(r.map_[frame_id], r.k_)
                   THEN [r EXCEPT !.old_cache_list_ = Pin(@, frame_id)]
                   ELSE [r EXCEPT !.new_cache_list_ = Pin(@, frame_id)]
       IN [r2 EXCEPT !.map_ = MapErase(@, frame_id), !.curr_size_ = @ - 1]

\* ----------------------------------------------------- BufferPoolManager
\* The manager's state as a record b: [pages_, page_table_, free_list_,
\* next_page_id_, replacer_, io, fault].  pages_[f] is
\* [page_id_, pin_count_, is_dirty_]; io is the sequence of DiskManager
\* calls of the running operation; fault is "none" or how the process
\* stopped: "assert" (a failed assert aborts), "throw" (an uncaught
\* ExecutionException), "deadlock" (latch_ locked twice by one thread),
\* "blocked" (waiting for a frame latch nobody can release), "ub".
Page == [page_id_ |-> INVALID_PAGE_ID, pin_count_ |-> 0, is_dirty_ |-> FALSE]

BufferPoolManager(pool_size, replacer_k) ==
  [pages_ |-> [f \in 0 .. (pool_size - 1) |-> Page],
   page_table_ |-> EmptyMap,
   free_list_ |-> [i \in 1 .. pool_size |-> i - 1],
   next_page_id_ |-> 0,
   replacer_ |-> LRUKReplacer(pool_size, replacer_k),
   io |-> <<>>,
   fault |-> "none"]

WritePage(b, page_id) == [b EXCEPT !.io = Append(@, <<"write", page_id>>)]
ReadPage(b, page_id) == [b EXCEPT !.io = Append(@, <<"read", page_id>>)]

AllocatePage(b) == [b EXCEPT !.next_page_id_ = @ + 1]

\* Lines 57-58, 82-83, 99-100, 135-136: RecordAccess then SetEvictable(false).
Touch(r, frame_id) == SetEvictable(RecordAccess(r, frame_id), frame_id, FALSE).r

\* Restamp writing the victim back whether or not it is dirty.
Restamp_mut(b, frame_id, page_id) ==
  LET old == b.pages_[frame_id].page_id_
      b1  == WritePage(b, old)
  IN IF old \notin DOMAIN b1.page_table_
       THEN [b1 EXCEPT !.fault = "assert"]
       ELSE [b1 EXCEPT !.page_table_ = MapPut(MapErase(@, old), page_id, frame_id),
                       !.pages_[frame_id] =
                          [page_id_ |-> page_id, pin_count_ |-> 1, is_dirty_ |-> FALSE]]

\* Lines 67-78 and 121-131: write the victim back, remap, restamp.
Restamp(b, frame_id, page_id) ==
  LET old == b.pages_[frame_id].page_id_
      b1  == IF b.pages_[frame_id].is_dirty_ THEN WritePage(b, old) ELSE b
  IN IF old \notin DOMAIN b1.page_table_
       THEN [b1 EXCEPT !.fault = "assert"]
       ELSE [b1 EXCEPT !.page_table_ = MapPut(MapErase(@, old), page_id, frame_id),
                       !.pages_[frame_id] =
                          [page_id_ |-> page_id, pin_count_ |-> 1, is_dirty_ |-> FALSE]]

NewPage(b) ==
  IF Len(b.free_list_) = 0 /\ Size(b.replacer_) = 0
    THEN [b |-> b, page |-> nullptr]
  ELSE IF Len(b.free_list_) # 0
    THEN LET frame_id == Head(b.free_list_)
             page_id  == b.next_page_id_
             b1 == AllocatePage([b EXCEPT !.free_list_ = Tail(@)])
         IN [b |-> [b1 EXCEPT !.page_table_ = MapPut(@, page_id, frame_id),
                              !.pages_[frame_id] =
                                 [page_id_ |-> page_id, pin_count_ |-> 1, is_dirty_ |-> FALSE],
                              !.replacer_ = Touch(@, frame_id)],
             page |-> frame_id]
  ELSE
    LET page_id == b.next_page_id_
        ev == Evict(b.replacer_)
        b1 == [AllocatePage(b) EXCEPT !.replacer_ = ev.r]
    IN IF ~ev.ok THEN [b |-> [b1 EXCEPT !.fault = "assert"], page |-> nullptr]
       ELSE IF b1.pages_[ev.frame_id].pin_count_ # 0
         THEN [b |-> [b1 EXCEPT !.fault = "assert"], page |-> nullptr]
       ELSE LET b2 == Restamp(b1, ev.frame_id, page_id)
            IN IF b2.fault # "none" THEN [b |-> b2, page |-> nullptr]
               ELSE [b |-> [b2 EXCEPT !.replacer_ = Touch(@, ev.frame_id)],
                     page |-> ev.frame_id]

FetchPage(b, page_id) ==
  IF page_id \in DOMAIN b.page_table_
    THEN LET frame_id == b.page_table_[page_id]
         IN [b |-> [b EXCEPT !.replacer_ = Touch(@, frame_id),
                             !.pages_[frame_id].pin_count_ = @ + 1],
             page |-> frame_id]
  ELSE IF Len(b.free_list_) # 0
    THEN LET frame_id == Head(b.free_list_)
             b1 == ReadPage([b EXCEPT !.free_list_ = Tail(@),
                                      !.page_table_ = MapPut(@, page_id, frame_id)], page_id)
         IN [b |-> [b1 EXCEPT !.pages_[frame_id] =
                                 [page_id_ |-> page_id, pin_count_ |-> 1, is_dirty_ |-> FALSE]],
             page |-> frame_id]
  ELSE IF Size(b.replacer_) # 0
    THEN LET ev == Evict(b.replacer_)
             b1 == [b EXCEPT !.replacer_ = ev.r]
         IN IF ~ev.ok THEN [b |-> b1, page |-> nullptr]
            ELSE LET b2 == Restamp(b1, ev.frame_id, page_id)
                 IN IF b2.fault # "none" THEN [b |-> b2, page |-> nullptr]
                    ELSE [b |-> [ReadPage(b2, page_id) EXCEPT !.replacer_ = Touch(@, ev.frame_id)],
                          page |-> ev.frame_id]
  ELSE [b |-> b, page |-> nullptr]

UnpinPage(b, page_id, is_dirty) ==
  IF page_id \notin DOMAIN b.page_table_ THEN [b |-> b, ret |-> FALSE]
  ELSE
    LET frame_id == b.page_table_[page_id]
    IN IF b.pages_[frame_id].pin_count_ <= 0 THEN [b |-> b, ret |-> FALSE]
       ELSE
         LET b1 == [b EXCEPT !.pages_[frame_id].pin_count_ = @ - 1,
                             !.pages_[frame_id].is_dirty_ = is_dirty]
             se == SetEvictable(b1.replacer_, frame_id, TRUE)
         IN IF b1.pages_[frame_id].pin_count_ <= 0
              THEN [b |-> [b1 EXCEPT !.replacer_ = se.r, !.fault = se.err], ret |-> se.err = "none"]
              ELSE [b |-> b1, ret |-> TRUE]

FlushPage(b, page_id) ==
  IF page_id \notin DOMAIN b.page_table_ THEN [b |-> b, ret |-> FALSE]
  ELSE LET frame_id == b.page_table_[page_id]
       IN [b |-> [WritePage(b, b.pages_[frame_id].page_id_) EXCEPT
                     !.pages_[frame_id].is_dirty_ = FALSE],
           ret |-> TRUE]

\* FlushAllPages holds latch_ and calls FlushPage, which locks latch_ again:
\* with a resident page the thread waits for itself before any write.
FlushAllPages(b) ==
  IF DOMAIN b.page_table_ = {} THEN b ELSE [b EXCEPT !.fault = "deadlock"]

\* DeletePage without line 199: the frame keeps its page id.
DeletePage_mut(b, page_id) ==
  IF page_id \notin DOMAIN b.page_table_ THEN [b |-> b, ret |-> TRUE]
  ELSE
    LET frame_id == b.page_table_[page_id]
    IN IF b.pages_[frame_id].pin_count_ > 0 THEN [b |-> b, ret |-> FALSE]
       ELSE [b |-> [b EXCEPT !.pages_[frame_id] = [Page EXCEPT !.page_id_ = page_id],
                             !.page_table_ = MapErase(@, page_id),
                             !.free_list_ = Append(@, frame_id),
                             !.replacer_ = Remove(@, frame_id)],
             ret |-> TRUE]

DeletePage(b, page_id) ==
  IF page_id \notin DOMAIN b.page_table_ THEN [b |-> b, ret |-> TRUE]
  ELSE
    LET frame_id == b.page_table_[page_id]
    IN IF b.pages_[frame_id].pin_count_ > 0 THEN [b |-> b, ret |-> FALSE]
       ELSE [b |-> [b EXCEPT !.pages_[frame_id] = Page,
                             !.page_table_ = MapErase(@, page_id),
                             !.free_list_ = Append(@, frame_id),
                             !.replacer_ = Remove(@, frame_id)],
             ret |-> TRUE]

\* ----------------------------------------------------------- page guards
\* A guard object is [alive, kind, page_, bpm_, is_dirty_]; for a Read or
\* Write guard page_, bpm_ and is_dirty_ are those of its member guard_.
\* The operations below act on w = [b, rw, guards]: the manager, the
\* frames' ReaderWriterLatches rw[f] = [readers, writer], and the client's
\* guard objects by slot.
NoGuard == [alive |-> FALSE, kind |-> "Basic", page_ |-> nullptr, bpm_ |-> FALSE,
            is_dirty_ |-> FALSE]
MakeGuard(kind, page) == [alive |-> TRUE, kind |-> kind, page_ |-> page, bpm_ |-> TRUE,
                          is_dirty_ |-> FALSE]
Holds(g) == g.bpm_ /\ g.page_ # nullptr

RUnlatch(w, f) ==
  IF w.rw[f].readers = 0 THEN [w EXCEPT !.b.fault = "ub"]
  ELSE [w EXCEPT !.rw[f].readers = @ - 1]
WUnlatch(w, f) ==
  IF ~w.rw[f].writer THEN [w EXCEPT !.b.fault = "ub"]
  ELSE [w EXCEPT !.rw[f].writer = FALSE]
RLatch(w, f) ==
  IF w.rw[f].writer THEN [w EXCEPT !.b.fault = "blocked"]
  ELSE [w EXCEPT !.rw[f].readers = @ + 1]
WLatch(w, f) ==
  IF w.rw[f].writer \/ w.rw[f].readers > 0 THEN [w EXCEPT !.b.fault = "blocked"]
  ELSE [w EXCEPT !.rw[f].writer = TRUE]

\* bpm_->UnpinPage(page_->GetPageId(), is_dirty_)
GuardUnpin(w, g) ==
  [w EXCEPT !.b = UnpinPage(w.b, w.b.pages_[g.page_].page_id_, g.is_dirty_).b]

\* BasicPageGuard::Drop and ~BasicPageGuard have the same body.
BasicDrop(w, g) == IF Holds(g) THEN GuardUnpin(w, g) ELSE w
BasicDtor(w, g) == IF Holds(g) THEN GuardUnpin(w, g) ELSE w

ReadDrop(w, g) ==
  IF ~Holds(g) THEN w
  ELSE Then(GuardUnpin(w, g),
            LAMBDA w1 : IF w1.b.fault # "none" THEN w1 ELSE RUnlatch(w1, g.page_))
WriteDrop(w, g) ==
  IF ~Holds(g) THEN w
  ELSE Then(GuardUnpin(w, g),
            LAMBDA w1 : IF w1.b.fault # "none" THEN w1 ELSE WUnlatch(w1, g.page_))

\* ~ReadPageGuard / ~WritePageGuard: the body, then the destructor of the
\* member guard_, whose page_ and bpm_ the body has left set.
ReadDtor(w, g) ==
  Then(ReadDrop(w, g), LAMBDA w1 : IF w1.b.fault # "none" THEN w1 ELSE BasicDtor(w1, g))
WriteDtor(w, g) ==
  Then(WriteDrop(w, g), LAMBDA w1 : IF w1.b.fault # "none" THEN w1 ELSE BasicDtor(w1, g))

\* g.Drop() on the guard object in slot g
Drop(w, g) ==
  LET x == w.guards[g]
  IN IF x.kind = "Read" THEN ReadDrop(w, x)
     ELSE IF x.kind = "Write" THEN WriteDrop(w, x) ELSE BasicDrop(w, x)

\* the guard object in slot g goes out of scope
Dtor(w, g) ==
  LET x  == w.guards[g]
      w1 == IF x.kind = "Read" THEN ReadDtor(w, x)
            ELSE IF x.kind = "Write" THEN WriteDtor(w, x) ELSE BasicDtor(w, x)
  IN [w1 EXCEPT !.guards[g] = NoGuard]

\* BasicPageGuard(BasicPageGuard &&) and operator=(BasicPageGuard &&) are
\* the same three copies and two resets; the Read/Write versions forward to
\* them through guard_.  Neither calls the manager.
MoveCtor(w, g, that) ==
  [w EXCEPT !.guards[g] = [w.guards[that] EXCEPT !.alive = TRUE],
            !.guards[that] = [w.guards[that] EXCEPT !.page_ = nullptr, !.bpm_ = FALSE]]
MoveAssignment(w, g, that) ==
  [w EXCEPT !.guards[g] = [w.guards[that] EXCEPT !.alive = TRUE],
            !.guards[that] = [w.guards[that] EXCEPT !.page_ = nullptr, !.bpm_ = FALSE]]

\* auto g = bpm->F(...): the guard {this, page} exists only if F returns.
Returned(w, g, kind, page) ==
  IF w.b.fault = "none" THEN [w EXCEPT !.guards[g] = MakeGuard(kind, page)] ELSE w

FetchPageRead(w, g, page_id) ==
  Then(FetchPage(w.b, page_id),
       LAMBDA fp :
         IF fp.b.fault # "none" THEN [w EXCEPT !.b = fp.b]
         ELSE IF fp.page = nullptr THEN [w EXCEPT !.b = [fp.b EXCEPT !.fault = "ub"]]
         ELSE Then(RLatch([w EXCEPT !.b = fp.b], fp.page),
                   LAMBDA w1 : Returned(w1, g, "Read", fp.page)))

FetchPageWrite(w, g, page_id) ==
  Then(FetchPage(w.b, page_id),
       LAMBDA fp :
         IF fp.b.fault # "none" THEN [w EXCEPT !.b = fp.b]
         ELSE IF fp.page = nullptr THEN [w EXCEPT !.b = [fp.b EXCEPT !.fault = "ub"]]
         ELSE Then(WLatch([w EXCEPT !.b = fp.b], fp.page),
                   LAMBDA w1 : Returned(w1, g, "Write", fp.page)))

\* FetchPageBasic locks latch_ and calls FetchPage, which locks it again.
FetchPageBasic(w, g, page_id) == [w EXCEPT !.b.fault = "deadlock"]

NewPageGuarded(w, g) ==
  Then(NewPage(w.b), LAMBDA np : Returned([w EXCEPT !.b = np.b], g, "Basic", np.page))

\* ------------------------------------------------------------- the state
\* latch_ is the thread that holds the manager's mutex (0: nobody); th[t] is
\* where thread t stands in the operation it is running.  lru is a
\* stand-alone LRUReplacer; stamp[f] is the time of the last insertion or
\* access of f in it, on the clock counting these uses.
VARIABLES pages_, page_table_, free_list_, next_page_id_, replacer_, io, fault,
          rw, guards, latch_, th, lru, stamp, clock

vars == <<pages_, page_table_, free_list_, next_page_id_, replacer_, io, fault,
          rw, guards, latch_, th, lru, stamp, clock>>

Frames == DOMAIN pages_
pool_size_ == Cardinality(Frames)

\* The manager, the latches and the guards at the start of an operation.
World ==
  [b |-> [pages_ |-> pages_, page_table_ |-> page_table_, free_list_ |-> free_list_,
          next_page_id_ |-> next_page_id_, replacer_ |-> replacer_, io |-> <<>>,
          fault |-> fault],
   rw |-> rw,
   guards |-> guards]

Places(w) ==
  /\ pages_' = w.b.pages_
  /\ page_table_' = w.b.page_table_
  /\ free_list_' = w.b.free_list_
  /\ next_page_id_' = w.b.next_page_id_
  /\ replacer_' = w.b.replacer_
  /\ io' = w.b.io
  /\ fault' = w.b.fault
  /\ rw' = w.rw
  /\ guards' = w.guards

\* An operation called by a single thread, from entry to return.
Becomes(w) == Places(w) /\ UNCHANGED <<latch_, th, lru, stamp, clock>>

\* The manager operation result r = [b, ...] applied to the world.
Manager(r) == [World EXCEPT !.b = r.b]

\* The operation's outcome w, computed once, is the next state.
Run(outcome) == \E w \in {outcome} : Becomes(w)

Idle == [pc |-> "idle", op |-> "none", page_id |-> INVALID_PAGE_ID, page |-> nullptr,
         latched |-> FALSE]

InitManager(pool_size, replacer_k) ==
  LET b == BufferPoolManager(pool_size, replacer_k)
  IN /\ pages_ = b.pages_
     /\ page_table_ = b.page_table_
     /\ free_list_ = b.free_list_
     /\ next_page_id_ = b.next_page_id_
     /\ replacer_ = b.replacer_
     /\ io = b.io
     /\ fault = b.fault
     /\ rw = [f \in 0 .. (pool_size - 1) |-> [readers |-> 0, writer |-> FALSE]]
     /\ guards = [g \in GuardIds |-> NoGuard]
     /\ latch_ = 0
     /\ th = [t \in Threads |-> Idle]

InitLRUReplacer(num_pages) ==
  /\ lru = LRUReplacer(num_pages)
  /\ stamp = [f \in LRUFrames |-> 0]
  /\ clock = 0

Init ==
  \E pool_size \in 1 .. MaxPool, replacer_k \in 1 .. MaxK :
    InitManager(pool_size, replacer_k) /\ InitLRUReplacer(1)

\* A hit of FetchPage is explored only below a pin bound.
Fetchable(page_id, bound) ==
  page_id \in DOMAIN page_table_ => pages_[page_table_[page_id]].pin_count_ < bound

\* ------------------------------------------------------------ the actions
CallNewPage ==
  /\ fault = "none" /\ next_page_id_ < MaxPageId
  /\ Run(Manager(NewPage(World.b)))

CallFetchPage(page_id) ==
  /\ fault = "none" /\ Fetchable(page_id, MaxPin)
  /\ Run(Manager(FetchPage(World.b, page_id)))

CallUnpinPage(page_id, is_dirty) ==
  /\ fault = "none"
  /\ Run(Manager(UnpinPage(World.b, page_id, is_dirty)))

CallFlushPage(page_id) ==
  /\ fault = "none"
  /\ Run(Manager(FlushPage(World.b, page_id)))

CallFlushAllPages ==
  /\ fault = "none"
  /\ Run(Manager([b |-> FlushAllPages(World.b)]))

CallDeletePage(page_id) ==
  /\ fault = "none"
  /\ Run(Manager(DeletePage(World.b, page_id)))

CallNewPageGuarded(g) ==
  /\ fault = "none" /\ next_page_id_ < MaxPageId /\ ~guards[g].alive
  /\ Run(NewPageGuarded(World, g))

CallFetchPageBasic(g, page_id) ==
  /\ fault = "none" /\ Fetchable(page_id, MaxGuardPin) /\ ~guards[g].alive
  /\ Run(FetchPageBasic(World, g, page_id))

CallFetchPageRead(g, page_id) ==
  /\ fault = "none" /\ Fetchable(page_id, MaxGuardPin) /\ ~guards[g].alive
  /\ \A f \in Frames : rw[f].readers < MaxGuardPin
  /\ Run(FetchPageRead(World, g, page_id))

CallFetchPageWrite(g, page_id) ==
  /\ fault = "none" /\ Fetchable(page_id, MaxGuardPin) /\ ~guards[g].alive
  /\ Run(FetchPageWrite(World, g, page_id))

\* auto g = Guard(std::move(g2))
MoveConstruct(g, g2) ==
  /\ fault = "none" /\ ~guards[g].alive /\ guards[g2].alive
  /\ Run(MoveCtor(World, g, g2))

\* g = std::move(g2), two objects of the same guard class
MoveAssign(g, g2) ==
  /\ fault = "none" /\ g # g2 /\ guards[g].alive /\ guards[g2].alive
  /\ guards[g].kind = guards[g2].kind
  /\ Run(MoveAssignment(World, g, g2))

CallDrop(g) ==
  /\ fault = "none" /\ guards[g].alive
  /\ Run(Drop(World, g))

\* the guard goes out of scope
Destroy(g) ==
  /\ fault = "none" /\ guards[g].alive
  /\ Run(Dtor(World, g))

Next ==
  \/ CallNewPage
  \/ \E page_id \in PageIds : CallFetchPage(page_id)
  \/ \E page_id \in PageIds, is_dirty \in BOOLEAN : CallUnpinPage(page_id, is_dirty)
  \/ \E page_id \in PageIds : CallFlushPage(page_id)
  \/ CallFlushAllPages
  \/ \E page_id \in PageIds : CallDeletePage(page_id)

NextGuards ==
  \/ Next
  \/ \E g \in GuardIds : CallNewPageGuarded(g)
  \/ \E g \in GuardIds, page_id \in PageIds : CallFetchPageBasic(g, page_id)
  \/ \E g \in GuardIds, page_id \in PageIds : CallFetchPageRead(g, page_id)
  \/ \E g \in GuardIds, page_id \in PageIds : CallFetchPageWrite(g, page_id)
  \/ \E g \in GuardIds, g2 \in GuardIds : MoveConstruct(g, g2)
  \/ \E g \in GuardIds, g2 \in GuardIds : MoveAssign(g, g2)
  \/ \E g \in GuardIds : CallDrop(g)
  \/ \E g \in GuardIds : Destroy(g)

\* The manager's public operations on pages (no guards are created).
Spec == Init /\ [][Next]_vars

\* The guards on top of the manager, for a pool of GuardPool frames.
InitGuards == Init /\ pool_size_ <= GuardPool
SpecGuards == InitGuards /\ [][NextGuards]_vars

\* ------------------------------------------- the replacer called directly
\* The client of these actions is the LRUKReplacer the constructor made;
\* frame ids are those of the pool.
CallRecordAccess(frame_id) ==
  /\ fault = "none"
  /\ Run(Manager([b |-> [World.b EXCEPT !.replacer_ = RecordAccess(@, frame_id)]]))

CallSetEvictable(frame_id, set_evictable) ==
  /\ fault = "none"
  /\ \E se \in {SetEvictable(replacer_, frame_id, set_evictable)} :
       Run(Manager([b |-> [World.b EXCEPT !.replacer_ = se.r, !.fault = se.err]]))

CallEvict ==
  /\ fault = "none"
  /\ Run(Manager([b |-> [World.b EXCEPT !.replacer_ = Evict(@).r]]))

CallRemove(frame_id) ==
  /\ fault = "none"
  /\ Run(Manager([b |-> [World.b EXCEPT !.replacer_ = Remove(@, frame_id)]]))

NextLRUK ==
  \/ \E frame_id \in Frames : CallRecordAccess(frame_id)
  \/ \E frame_id \in Frames, set_evictable \in BOOLEAN : CallSetEvictable(frame_id, set_evictable)
  \/ CallEvict
  \/ \E frame_id \in Frames : CallRemove(frame_id)

SpecLRUK == Init /\ [][NextLRUK]_vars

\* -------------------------------------------------------- client threads
\* Thread t runs  { auto g = bpm->FetchPageRead/Write(p); g.Drop(); }  on
\* its own guard object guards[t], step by step: an operation of the
\* manager is the wait for latch_ ("lock"), then its body up to the return
\* that releases latch_ ("body"); FetchPageRead/Write then wait for the
\* frame's latch ("latch"); Drop and the destructor unlatch after UnpinPage
\* has returned ("unlatch"), and the destructor goes on to ~BasicPageGuard.
\* th[t].latched says that t holds the frame latch it took for its guard.

\* ~lock_guard at the return of a manager operation that thread t called.
Unlock_mut(t) == t

Unlock(t) == 0

At(t, pc, op) == th' = [th EXCEPT ![t].pc = pc, ![t].op = op]

\* page_->GetPageId(), the argument of UnpinPage, read before the call.
GetPageId(g) == pages_[g.page_].page_id_

Quiet == UNCHANGED <<pages_, page_table_, free_list_, next_page_id_, replacer_, io, fault,
                     rw, guards, latch_, lru, stamp, clock>>

\* t calls bpm->FetchPageRead(page_id) or bpm->FetchPageWrite(page_id)
StartFetch(t, op, page_id) ==
  /\ fault = "none" /\ th[t].pc = "idle" /\ ~guards[t].alive
  /\ Fetchable(page_id, MaxGuardPin)
  /\ th' = [th EXCEPT ![t].pc = "lock", ![t].op = op, ![t].page_id = page_id]
  /\ Quiet

\* t calls guards[t].Drop()
StartDrop(t) ==
  /\ fault = "none" /\ th[t].pc = "idle" /\ guards[t].alive /\ Holds(guards[t])
  /\ th' = [th EXCEPT ![t].pc = "lock", ![t].op = "Drop",
                       ![t].page_id = GetPageId(guards[t])]
  /\ Quiet

\* guards[t] goes out of scope
StartDtor(t) ==
  /\ fault = "none" /\ th[t].pc = "idle" /\ guards[t].alive /\ Holds(guards[t])
  /\ th' = [th EXCEPT ![t].pc = "lock", ![t].op = "Dtor",
                       ![t].page_id = GetPageId(guards[t])]
  /\ Quiet

\* std::lock_guard<std::mutex> lg(latch_)
Lock(t) ==
  /\ fault = "none" /\ th[t].pc = "lock" /\ latch_ = 0
  /\ latch_' = t
  /\ At(t, "body", th[t].op)
  /\ UNCHANGED <<pages_, page_table_, free_list_, next_page_id_, replacer_, io, fault,
                 rw, guards, lru, stamp, clock>>

\* FetchPage from below its lock_guard to its return; a null result is
\* dereferenced by the caller.
FetchBody(t) ==
  /\ fault = "none" /\ th[t].pc = "body" /\ th[t].op \in {"FetchPageRead", "FetchPageWrite"}
  /\ \E fp \in {FetchPage(World.b, th[t].page_id)} :
       /\ Places([World EXCEPT !.b = [fp.b EXCEPT !.fault =
                    IF @ = "none" /\ fp.page = nullptr THEN "ub" ELSE @]])
       /\ th' = [th EXCEPT ![t].pc = "latch", ![t].page = fp.page]
  /\ latch_' = Unlock(t)
  /\ UNCHANGED <<lru, stamp, clock>>

\* page->RLatch() / page->WLatch(), then return {this, page}
Latch(t) ==
  /\ fault = "none" /\ th[t].pc = "latch"
  /\ IF th[t].op = "FetchPageRead"
       THEN /\ ~rw[th[t].page].writer
            /\ Places(Returned(RLatch(World, th[t].page), t, "Read", th[t].page))
       ELSE /\ ~rw[th[t].page].writer /\ rw[th[t].page].readers = 0
            /\ Places(Returned(WLatch(World, th[t].page), t, "Write", th[t].page))
  /\ th' = [th EXCEPT ![t] = [Idle EXCEPT !.latched = TRUE]]
  /\ UNCHANGED <<latch_, lru, stamp, clock>>

\* bpm_->UnpinPage(...) of Drop, of the destructor's body and of
\* ~BasicPageGuard, from below its lock_guard to its return.
UnpinBody(t) ==
  /\ fault = "none" /\ th[t].pc = "body" /\ th[t].op \in {"Drop", "Dtor", "BasicDtor"}
  /\ \E up \in {UnpinPage(World.b, th[t].page_id, guards[t].is_dirty_)} :
       Places([World EXCEPT !.b = up.b,
                            !.guards[t] = IF th[t].op = "BasicDtor" THEN NoGuard ELSE @])
  /\ IF th[t].op = "BasicDtor"
       THEN th' = [th EXCEPT ![t] = [Idle EXCEPT !.latched = th[t].latched]]
       ELSE At(t, "unlatch", th[t].op)
  /\ latch_' = Unlock(t)
  /\ UNCHANGED <<lru, stamp, clock>>

\* RUnlatch() / WUnlatch(); unlocking a latch the thread does not hold is
\* undefined.
Unlatch(t) ==
  /\ fault = "none" /\ th[t].pc = "unlatch"
  /\ \E w \in {IF ~th[t].latched THEN [World EXCEPT !.b.fault = "ub"]
                ELSE IF guards[t].kind = "Read" THEN RUnlatch(World, guards[t].page_)
                ELSE WUnlatch(World, guards[t].page_)} : Places(w)
  /\ th' = [th EXCEPT ![t] =
             IF th[t].op = "Dtor"
               THEN [@ EXCEPT !.latched = FALSE, !.pc = "lock", !.op = "BasicDtor",
                              !.page_id = GetPageId(guards[t])]
               ELSE Idle]
  /\ UNCHANGED <<latch_, lru, stamp, clock>>

\* The steps thread t takes once it has called an operation.
Step(t) == Lock(t) \/ FetchBody(t) \/ Latch(t) \/ UnpinBody(t) \/ Unlatch(t)

NextThreads ==
  \/ \E t \in Threads, page_id \in PageIds : StartFetch(t, "FetchPageRead", page_id)
  \/ \E t \in Threads, page_id \in PageIds : StartFetch(t, "FetchPageWrite", page_id)
  \/ \E t \in Threads : StartDrop(t)
  \/ \E t \in Threads : StartDtor(t)
  \/ \E t \in Threads : Lock(t)
  \/ \E t \in Threads : FetchBody(t)
  \/ \E t \in Threads : Latch(t)
  \/ \E t \in Threads : UnpinBody(t)
  \/ \E t \in Threads : Unlatch(t)

SpecThreads == InitGuards /\ [][NextThreads]_vars

\* A thread that can go on with the operation it is in does go on.
SpecThreadsFair == SpecThreads /\ \A t \in Threads : WF_vars(Step(t))

\* ------------------------------------------- a stand-alone LRUReplacer
\* The use of frame_id is stamped when stamped holds.
Use(q, frame_id, stamped) ==
  /\ lru' = q
  /\ clock' = IF stamped THEN clock + 1 ELSE clock
  /\ stamp' = IF stamped THEN [stamp EXCEPT ![frame_id] = clock + 1] ELSE stamp
  /\ UNCHANGED <<pages_, page_table_, free_list_, next_page_id_, replacer_, io, fault,
                 rw, guards, latch_, th>>

CallUnpin(frame_id) ==
  /\ clock < MaxClock
  /\ Use(Unpin(lru, frame_id), frame_id, ~InSeq(lru.list_, frame_id))

CallAccess(frame_id) ==
  /\ clock < MaxClock
  /\ Use(Access(lru, frame_id), frame_id, InSeq(lru.list_, frame_id))

CallPin(frame_id) == Use(Pin(lru, frame_id), frame_id, FALSE)

CallVictim == Use(Victim(lru).q, nullptr, FALSE)

NextLRU ==
  \/ \E frame_id \in LRUFrames : CallUnpin(frame_id)
  \/ \E frame_id \in LRUFrames : CallAccess(frame_id)
  \/ \E frame_id \in LRUFrames : CallPin(frame_id)
  \/ CallVictim

InitLRU ==
  \E num_pages \in 1 .. MaxLRUPages : InitManager(1, 1) /\ InitLRUReplacer(num_pages)

SpecLRU == InitLRU /\ [][NextLRU]_vars

TypeOK ==
  /\ fault \in {"none", "assert", "throw", "deadlock", "blocked", "ub"}
  /\ replacer_.curr_size_ >= 0
  /\ replacer_.new_cache_list_.cur_size_ >= 0
  /\ replacer_.old_cache_list_.cur_size_ >= 0
  /\ \A f \in Frames : pages_[f].pin_count_ >= 0

\* ------------------------------------------------------------- the claims
PinCount(w, f) == w.b.pages_[f].pin_count_
Resident == DOMAIN page_table_
InReplacer(r, f) ==
  InSeq(r.new_cache_list_.list_, f) \/ InSeq(r.old_cache_list_.list_, f)

\* C1: for a resident page with pin_count n, FetchPageRead returns a guard
\* on its frame and makes pin_count n+1, and destroying that guard, never
\* moved from and never dropped, makes pin_count n again.
C1_ReadGuardRestoresPin ==
  fault = "none" =>
    \A g \in GuardIds, page_id \in Resident :
      LET f  == page_table_[page_id]
          n  == pages_[f].pin_count_
          w1 == FetchPageRead(World, g, page_id)
          w2 == Dtor(w1, g)
      IN (~guards[g].alive /\ ~rw[f].writer) =>
           /\ w1.b.fault = "none"
           /\ w1.guards[g].page_ = f
           /\ PinCount(w1, f) = n + 1
           /\ PinCount(w2, f) = n

\* C2: with one other pin on the page, two Read guards g and g2 on it give
\* pin_count 3; g = move(g2) releases the pin g owned, so pin_count is 2
\* right after the assignment, and 1 once g and g2 have gone out of scope.
C2_MoveAssignReleasesPin ==
  fault = "none" =>
    \A g \in GuardIds, g2 \in GuardIds, page_id \in Resident :
      LET f  == page_table_[page_id]
          w1 == FetchPageRead(World, g, page_id)
          w2 == FetchPageRead(w1, g2, page_id)
          w3 == MoveAssignment(w2, g, g2)
          w4 == Dtor(Dtor(w3, g), g2)
      IN (g # g2 /\ ~guards[g].alive /\ ~guards[g2].alive /\ ~rw[f].writer
          /\ pages_[f].pin_count_ = 1) =>
           /\ PinCount(w2, f) = 3
           /\ PinCount(w3, f) = 2
           /\ PinCount(w4, f) = 1

\* C3: Drop is idempotent: on a page pinned once more besides the guard's
\* own pin, the first Drop of a guard takes pin_count down by one and a
\* second Drop, or the destructor, after it takes nothing more.
C3_DropIdempotent ==
  (fault = "none" /\ next_page_id_ < MaxPageId) =>
    \A g \in GuardIds :
      LET w0 == NewPageGuarded(World, g)
          f  == w0.guards[g].page_
          w1 == [w0 EXCEPT !.b = FetchPage(w0.b, w0.b.pages_[f].page_id_).b]
          w2 == Drop(w1, g)
          w3 == Drop(w2, g)
          w4 == Dtor(w2, g)
      IN (~guards[g].alive /\ w0.b.fault = "none" /\ f # nullptr) =>
           /\ PinCount(w1, f) = 2
           /\ PinCount(w2, f) = 1
           /\ PinCount(w3, f) = 1
           /\ PinCount(w4, f) = 1

\* C4: move-constructing g2 from a live guard g leaves pin_count as it is;
\* afterwards Drop and the destructor of g unpin nothing, and destroying g2
\* releases exactly one pin.
C4_MoveConstructTransfers ==
  fault = "none" =>
    \A g \in GuardIds, g2 \in GuardIds, page_id \in Resident :
      LET f  == page_table_[page_id]
          n  == pages_[f].pin_count_
          w1 == FetchPageRead(World, g, page_id)
          w2 == MoveCtor(w1, g2, g)
          w3 == Drop(w2, g)
          w4 == Dtor(w3, g)
          w5 == Dtor(w4, g2)
      IN (g # g2 /\ ~guards[g].alive /\ ~guards[g2].alive /\ ~rw[f].writer) =>
           /\ PinCount(w2, f) = n + 1
           /\ ~Holds(w2.guards[g]) /\ Holds(w2.guards[g2])
           /\ w3.b = w2.b /\ w3.rw = w2.rw
           /\ w4.b = w2.b /\ w4.rw = w2.rw
           /\ PinCount(w5, f) = n

\* C5: with the free list empty and every resident frame pinned, NewPage
\* and FetchPage of a page that is not resident return null, change nothing
\* of the manager and do no disk I/O.
C5_ExhaustedPoolFailsCleanly ==
  (fault = "none" /\ Len(free_list_) = 0
   /\ \A page_id \in Resident : pages_[page_table_[page_id]].pin_count_ > 0) =>
    /\ NewPage(World.b) = [b |-> World.b, page |-> nullptr]
    /\ \A page_id \in PageIds \ Resident :
         FetchPage(World.b, page_id) = [b |-> World.b, page |-> nullptr]

\* C6: DeletePage(p) returns true and changes nothing when p is not
\* resident, returns false and changes nothing when p is pinned, and for a
\* resident unpinned p returns true, unmaps p, invalidates the frame's
\* page_id, appends the frame to free_list, takes the frame out of the
\* replacer (Size() one less) and writes nothing.
C6_DeletePage ==
  fault = "none" =>
    \A page_id \in PageIds :
      LET dp == DeletePage(World.b, page_id)
          f  == page_table_[page_id]
      IN IF page_id \notin Resident THEN dp = [b |-> World.b, ret |-> TRUE]
         ELSE IF pages_[f].pin_count_ > 0 THEN dp = [b |-> World.b, ret |-> FALSE]
         ELSE /\ dp.ret
              /\ page_id \notin DOMAIN dp.b.page_table_
              /\ dp.b.pages_[f].page_id_ = INVALID_PAGE_ID
              /\ dp.b.free_list_ = Append(free_list_, f)
              /\ ~InReplacer(dp.b.replacer_, f)
              /\ Size(dp.b.replacer_) = Size(replacer_) - 1
              /\ dp.b.io = <<>>

\* C7: UnpinPage ORs the dirty flag in: a successful UnpinPage(p, false) of
\* a dirty resident page leaves it dirty.
C7_UnpinKeepsDirty ==
  fault = "none" =>
    \A page_id \in Resident :
      LET f  == page_table_[page_id]
          up == UnpinPage(World.b, page_id, FALSE)
      IN (pages_[f].is_dirty_ /\ up.ret) => up.b.pages_[f].is_dirty_

\* C8: write_page is called once, with the victim's old page id, when
\* NewPage or FetchPage evicts a dirty frame, once per page flushed by
\* FlushPage or FlushAllPages, and never otherwise: not for a clean victim,
\* not by UnpinPage, not by DeletePage.
Writes(calls) == SelectSeq(calls, LAMBDA c : c[1] = "write")
WriteBack(page) ==
  IF Len(free_list_) = 0 /\ page # nullptr /\ pages_[page].is_dirty_
    THEN << <<"write", pages_[page].page_id_>> >>
    ELSE <<>>

\* What NewPage or a missing FetchPage, with result r, may have written.
EvictionWrites(r) ==
  IF r.b.fault = "none"
    THEN Writes(r.b.io) = WriteBack(r.page)
    ELSE \/ Writes(r.b.io) = <<>>
         \/ \E f \in Frames : Writes(r.b.io) = WriteBack(f) /\ WriteBack(f) # <<>>

C9_FramesPartitioned ==
  /\ \A page_id \in Resident : ~InSeq(free_list_, page_table_[page_id])
  /\ \A p1 \in Resident, p2 \in Resident : page_table_[p1] = page_table_[p2] => p1 = p2
  /\ Len(free_list_) + Cardinality(Resident) = pool_size_

\* C10: every page_table entry (pid, f) has pages_[f].page_id_ = pid, and
\* every frame in free_list has page_id INVALID_PAGE_ID.
C10_PageTableCoherent ==
  /\ \A page_id \in Resident : pages_[page_table_[page_id]].page_id_ = page_id
  /\ \A i \in 1 .. Len(free_list_) : pages_[free_list_[i]].page_id_ = INVALID_PAGE_ID

\* A frame that held a page is back at the tail of free_list after
\* DeletePage, next to a resident page.
C10_Witness ==
  /\ fault = "none" /\ next_page_id_ > 0 /\ Resident # {}
  /\ Len(free_list_) > 0 /\ free_list_[Len(free_list_)] = 0

\* The frame holds a resident page: some page_table entry maps to it.
IsResident(f) == \E page_id \in Resident : page_table_[page_id] = f

\* C11: a frame is in new_queue or old_queue of the replacer if and only if
\* it is resident and its pin_count is 0; a pinned frame is in neither.
C11_EvictableIffUnpinned ==
  fault = "none" =>
    \A f \in Frames :
      InReplacer(replacer_, f) <=> (IsResident(f) /\ pages_[f].pin_count_ = 0)

\* C13: no public operation locks latch_ while its thread holds it: every
\* one of them returns; FlushAllPages with a resident page returns after
\* writing every resident page, and FetchPageBasic returns a guard.
C13_NoRelock ==
  fault = "none" =>
    /\ NewPage(World.b).b.fault # "deadlock"
    /\ LET fa == FlushAllPages(World.b)
       IN /\ fa.fault # "deadlock"
          /\ {c[2] : c \in SeqSet(Writes(fa.io))} = Resident
    /\ \A page_id \in PageIds :
         /\ FetchPage(World.b, page_id).b.fault # "deadlock"
         /\ FlushPage(World.b, page_id).b.fault # "deadlock"
         /\ DeletePage(World.b, page_id).b.fault # "deadlock"
         /\ \A is_dirty \in BOOLEAN :
              UnpinPage(World.b, page_id, is_dirty).b.fault # "deadlock"
    /\ \A g \in GuardIds :
         ~guards[g].alive =>
           /\ NewPageGuarded(World, g).b.fault # "deadlock"
           /\ \A page_id \in Resident :
                /\ FetchPageRead(World, g, page_id).b.fault # "deadlock"
                /\ FetchPageWrite(World, g, page_id).b.fault # "deadlock"
                /\ LET w1 == FetchPageBasic(World, g, page_id)
                   IN /\ w1.b.fault = "none"
                      /\ w1.guards[g] = MakeGuard("Basic", page_table_[page_id])

\* C15: FetchPage of a resident page returns the frame page_table maps it
\* to, adds one to that frame's pin_count, leaves the frame in neither queue
\* of the replacer, does no disk I/O and changes no other frame, page_table
\* or free_list.
C15_FetchHit ==
  fault = "none" =>
    \A page_id \in Resident :
      LET f  == page_table_[page_id]
          fp == FetchPage(World.b, page_id)
      IN /\ fp.b.fault = "none"
         /\ fp.page = f
         /\ fp.b.pages_ = [pages_ EXCEPT ![f].pin_count_ = @ + 1]
         /\ ~InReplacer(fp.b.replacer_, f)
         /\ fp.b.io = <<>>
         /\ fp.b.page_table_ = page_table_
         /\ fp.b.free_list_ = free_list_

\* C16: the assertions of the eviction path hold: with the free list empty
\* and Size() # 0, Evict succeeds, the victim has pin_count 0 and the
\* victim's page id is a key of page_table; NewPage and FetchPage never
\* abort on an assertion.
C16_EvictionAssertionsHold ==
  fault = "none" =>
    /\ NewPage(World.b).b.fault # "assert"
    /\ \A page_id \in PageIds : FetchPage(World.b, page_id).b.fault # "assert"
    /\ (Len(free_list_) = 0 /\ Size(replacer_) # 0) =>
         LET ev == Evict(replacer_)
         IN /\ ev.ok
            /\ pages_[ev.frame_id].pin_count_ = 0
            /\ pages_[ev.frame_id].page_id_ \in Resident

\* C17: NewPage and FetchPage of a page that is not resident fail only on
\* pool exhaustion: with a free frame, or a resident frame of pin_count 0,
\* NewPage returns a frame with pin_count 1 holding the allocated id and
\* FetchPage returns a frame with pin_count 1 holding the page asked for.
C17_FailOnlyOnExhaustion ==
  (fault = "none"
   /\ (Len(free_list_) # 0 \/ \E f \in Frames : IsResident(f) /\ pages_[f].pin_count_ = 0)) =>
    /\ LET np == NewPage(World.b)
       IN /\ np.b.fault = "none"
          /\ np.page # nullptr
          /\ np.b.pages_[np.page].pin_count_ = 1
          /\ np.b.pages_[np.page].page_id_ = next_page_id_
    /\ \A page_id \in PageIds \ Resident :
         LET fp == FetchPage(World.b, page_id)
         IN /\ fp.b.fault = "none"
            /\ fp.page # nullptr
            /\ fp.b.pages_[fp.page].pin_count_ = 1
            /\ fp.b.pages_[fp.page].page_id_ = page_id

\* ---------------------------------------------- claims about LRUKReplacer
InNew(r, f) == InSeq(r.new_cache_list_.list_, f)
InOld(r, f) == InSeq(r.old_cache_list_.list_, f)
\* The accesses recorded for a frame: its node's history, none without node.
Accesses(r, f) == IF f \in DOMAIN r.map_ THEN r.map_[f].history_ ELSE 0

\* C12: if some frame held as evictable has fewer than k accesses, Evict
\* returns such a frame, the head of new_queue; otherwise, if a frame is
\* held, the head of old_queue; if none is held, Evict returns false and
\* changes nothing.
C12_EvictPrefersYoung ==
  fault = "none" =>
    LET r     == replacer_
        ev    == Evict(r)
        held  == {f \in Frames : InReplacer(r, f)}
        young == {f \in held : Accesses(r, f) < r.k_}
    IN IF held = {} THEN ~ev.ok /\ ev.r = r
       ELSE IF young # {}
         THEN ev.ok /\ ev.frame_id \in young /\ ev.frame_id = Head(r.new_cache_list_.list_)
         ELSE /\ ev.ok /\ Len(r.old_cache_list_.list_) > 0
              /\ ev.frame_id = Head(r.old_cache_list_.list_)

\* C18: Size() is the number of frames in new_queue and old_queue, at most
\* num_frames and not below 0, and SetEvictable(f, true) of a frame that is
\* already in a queue changes neither Size() nor the queues.
C18_SizeCountsEvictable ==
  fault = "none" =>
    LET r == replacer_
    IN /\ Size(r) = Len(r.new_cache_list_.list_) + Len(r.old_cache_list_.list_)
       /\ Size(r) <= r.num_frames_
       /\ Size(r) >= 0
       /\ \A f \in Frames :
            InReplacer(r, f) =>
              LET se == SetEvictable(r, f, TRUE)
              IN /\ se.err = "none"
                 /\ Size(se.r) = Size(r)
                 /\ se.r.new_cache_list_.list_ = r.new_cache_list_.list_
                 /\ se.r.old_cache_list_.list_ = r.old_cache_list_.list_

\* C19: a frame in a queue is in one queue only and has a node; it is in
\* new_queue iff the node has fewer than k accesses and in old_queue iff it
\* has k or more; a node flagged evictable is in a queue; and the
\* RecordAccess that brings the history of a frame of new_queue to k moves
\* the frame to old_queue.
C19_QueueMatchesHistory ==
  fault = "none" =>
    LET r == replacer_
    IN \A f \in Frames :
         /\ ~(InNew(r, f) /\ InOld(r, f))
         /\ InReplacer(r, f) => f \in DOMAIN r.map_
         /\ InNew(r, f) => Accesses(r, f) < r.k_
         /\ InOld(r, f) => Accesses(r, f) >= r.k_
         /\ (f \in DOMAIN r.map_ /\ r.map_[f].is_evictable_) => InReplacer(r, f)
         /\ (InNew(r, f) /\ Accesses(r, f) = r.k_ - 1) =>
              LET r1 == RecordAccess(r, f)
              IN InOld(r1, f) /\ ~InNew(r1, f)

\* ----------------------------------------------- claims about LRUReplacer
Without(l, f) == SelectSeq(l, LAMBDA x : x # f)

\* C20: the queue has no duplicates and is ordered by last use, oldest
\* first; Unpin of an absent frame appends it (after dropping the head of a
\* full queue) and Unpin of a present frame changes nothing; Access moves a
\* present frame to the tail and changes nothing for an absent one; Pin
\* removes the frame; Victim returns and removes the head, whose last use
\* is the oldest, and returns false and changes nothing on an empty queue.
C20_QueueOrderedByLastUse ==
  LET l == lru.list_
      v == Victim(lru)
  IN /\ \A i \in 1 .. Len(l), j \in 1 .. Len(l) :
          i < j => l[i] # l[j] /\ stamp[l[i]] < stamp[l[j]]
     /\ \A f \in LRUFrames :
          /\ IF InSeq(l, f)
               THEN /\ Unpin(lru, f) = lru
                    /\ Access(lru, f).list_ = Without(l, f) \o <<f>>
               ELSE /\ Unpin(lru, f).list_ =
                         (IF Len(l) >= lru.num_pages_ THEN Tail(l) ELSE l) \o <<f>>
                    /\ Access(lru, f) = lru
          /\ Pin(lru, f).list_ = Without(l, f)
     /\ IF l = <<>>
          THEN ~v.ok /\ v.q = lru
          ELSE /\ v.ok /\ v.frame_id = l[1] /\ v.q.list_ = Tail(l)
               /\ \A f \in SeqSet(l) : stamp[v.frame_id] <= stamp[f]

\* Two frames are queued against the order of their first insertion: the
\* one now at the tail was used again (by Access, or by Pin and Unpin).
C20_Witness ==
  /\ Len(lru.list_) = 2 /\ clock >= 3
  /\ stamp[lru.list_[1]] < stamp[lru.list_[2]]
  /\ \E f \in LRUFrames : f # lru.list_[1] /\ f # lru.list_[2] /\ stamp[f] = 0
  /\ lru.list_[2] < lru.list_[1]

\* C21: Size() is the number of frame ids in the queue and is at most
\* num_pages, so that Victim succeeds whenever Size() > 0.
C21_SizeIsQueueLength ==
  /\ LRUSize(lru) = Len(lru.list_)
  /\ LRUSize(lru) <= lru.num_pages_
  /\ LRUSize(lru) > 0 => Victim(lru).ok

\* --------------------------------------------------- claims about threads
\* t holds the frame latch of f through its guard.
HasLatch(t, f) == th[t].latched /\ guards[t].page_ = f
\* t is in RLatch / WLatch and the latch of its frame is not to be had.
WaitsForLatch(t) ==
  /\ th[t].pc = "latch" /\ th[t].page # nullptr
  /\ \/ rw[th[t].page].writer
     \/ th[t].op = "FetchPageWrite" /\ rw[th[t].page].readers > 0
\* t waits for the frame latch that u holds.
WaitsForGuard(t, u) ==
  /\ WaitsForLatch(t) /\ HasLatch(u, th[t].page)
  /\ (th[t].op = "FetchPageWrite" \/ guards[u].kind = "Write")
\* t cannot go on until u has released latch_ or a frame latch.
WaitsFor(t, u) == (th[t].pc = "lock" /\ latch_ = u) \/ WaitsForGuard(t, u)
Deadlock ==
  \E S \in (SUBSET Threads) \ {{}} : \A t \in S : \E u \in S : WaitsFor(t, u)
LatchOrder ==
  /\ \A t \in Threads : th[t].pc \in {"latch", "unlatch", "idle"} => latch_ # t
  /\ \A t \in Threads : WaitsForLatch(t) => \E u \in Threads : WaitsFor(t, u)
\* t waits in FetchPageWrite for the frame that u, in Drop, holds a Write
\* guard on.
WaitsForDrop(t, u) ==
  /\ fault = "none" /\ t # u
  /\ th[t].op = "FetchPageWrite" /\ WaitsForGuard(t, u)
  /\ guards[u].kind = "Write" /\ th[u].op = "Drop"

\* C14: a thread is in RLatch/WLatch only with latch_ released, and every
\* latch waited for has a holder, so no set of threads wait for one
\* another; and when t waits in FetchPageWrite(p) for the Write guard of u
\* on p and u is in Drop, t gets the latch, unless a third thread takes it
\* first or the process runs into undefined behaviour.
C14_LatchAfterMutex ==
  /\ [](fault = "none" => LatchOrder /\ ~Deadlock)
  /\ \A t \in Threads, u \in Threads :
       WaitsForDrop(t, u) ~>
         \/ th[t].latched
         \/ \E v \in Threads \ {t, u} : WaitsForGuard(t, v)
         \/ fault # "none"

\* u has unpinned in Drop and is about to WUnlatch the frame t waits for.
C14_Witness ==
  \E t \in Threads, u \in Threads : WaitsForDrop(t, u) /\ th[u].pc = "unlatch"

====
